---- MODULE Spec2Model ----
(***************************************************************************)
(* A model of the segmented download engine of src/Main.go: the block      *)
(* planning of File.Start, the download rounds of File.download, the chunk *)
(* loop of File.downloadBlock, File.Pause / File.Resume, and the speed     *)
(* monitor of File.startGetSpeeds.                                         *)
(*                                                                         *)
(* The byte of the remote resource at offset o is modelled by the number   *)
(* o itself, so that the destination holds the right byte at offset o      *)
(* exactly when Stream[o] = o.  Block i of the source (0-based) is         *)
(* BlockList[i + 1] here.                                                  *)
(***************************************************************************)
EXTENDS Integers, Sequences, FiniteSets, TLC

\* ------------------------------------------------------------------ bounds
\* Largest total size and parallelism the planner is checked for.
MaxSize == 14
MaxP == 5
\* Largest total size and parallelism of a transfer that is run.
MaxRunSize == 3
MaxRunThread == 2
\* Callers' Pause and Resume calls, and injected network failures.
MaxPauses == 1
MaxResumes == 2
MaxFaults == 1
\* Largest total size and most Resume calls of the runs with speed
\* monitors, with rounds that overlap, and with a sink that fails.
MaxEdgeSize == 2
MaxEdgeResumes == 1
\* Fetchers of the round before that may still run when a round starts, in
\* the runs with rounds that overlap.
MaxEdgeOverlap == 1
\* Start calls of a caller who starts a started File again, and the largest
\* total size of such a File.
MaxStarts == 2
MaxRestartSize == 1
\* onError invocations are counted up to this number.
MaxErrors == 4
\* Fetchers of earlier rounds still running when a round starts.
MaxOverlap == 0
\* Length of the body of an error response (416, or an ignored Range).
ErrBodyLen == 1
\* The size of the read buffer (1024 in the source, small here).
CacheSize == 2

\* The sizes of the worked example (100,000 bytes with parallelism 4).
ExampleSizes == {100000}

VARIABLES
    Size,        \* File.Size: the Content-Length of the probe, -1 if unknown
    ResLen,      \* the real length of the remote resource
    MaxThread,   \* the package variable MaxThread
    BlockList,   \* File.BlockList
    paused,      \* File.paused
    Downloaded,  \* File.status.Downloaded
    Speeds,      \* File.status.Speeds
    Stream,      \* File.Stream: written offset -> the byte it holds
    startPc,     \* the goroutine of Start: "idle", "spawned", "done"
    resumePend,  \* goroutines of Resume that have not yet run their body
    rounds,      \* one record per call of download(), by Start or by Resume
    fetchers,    \* one record per goroutine of download()'s loop (line 89)
    monitors,    \* one record per goroutine of startGetSpeeds (line 191)
    fired,       \* how often each callback was invoked
    calls,       \* how often the caller called Start, Pause and Resume
    faults,      \* failures of the network and of the sink injected so far
    panicked,    \* a goroutine panicked: the process is gone
    limits       \* what the caller, the network and the scheduler may do

cfgVars == <<Size, ResLen, MaxThread, limits>>
fileVars == <<BlockList, paused, Downloaded, Stream>>
monVars == <<Speeds, monitors>>
procVars == <<startPc, resumePend, rounds, fetchers>>
obsVars == <<fired, calls, faults, panicked>>
vars == <<cfgVars, fileVars, monVars, procVars, obsVars>>

Min(a, b) == IF a < b THEN a ELSE b

\* ----------------------------------------------------------------- planner
Block(begin, end) == [Begin |-> begin, End |-> end]

\* The loop with `begin = end` for line 70: each block would begin on the
\* last byte of the one before.
RECURSIVE PlanLoopNoStep(_, _, _, _)
PlanLoopNoStep(list, begin, i, blockSize) ==
    IF i >= MaxThread THEN list
    ELSE LET end == (i + 1) * blockSize
         IN  PlanLoopNoStep(Append(list, Block(begin, end)), end, i + 1,
                            blockSize)

\* The loop of lines 67-71: after i iterations, the list and `begin`.
RECURSIVE PlanLoop(_, _, _, _)
PlanLoop(list, begin, i, blockSize) ==
    IF i >= MaxThread THEN list
    ELSE LET end == (i + 1) * blockSize
         IN  PlanLoop(Append(list, Block(begin, end)), end + 1, i + 1, blockSize)

\* Line 72: f.BlockList[MaxThread-1].End += f.Size - f.BlockList[MaxThread-1].End
AdjustLast(list) ==
    [list EXCEPT ![MaxThread].End = @ + (Size - @)]

\* The planner with `f.Size < 0` for line 62: a reported length of zero
\* would be split like a known size.
PlanStrict(old) ==
    IF Size < 0
    THEN Append(old, Block(0, -1))
    ELSE AdjustLast(PlanLoop(old, 0, 0, Size \div MaxThread))

\* Lines 62-73: the block list Start leaves, appended to the list `old`.
Plan(old) ==
    IF Size <= 0
    THEN Append(old, Block(0, -1))
    ELSE AdjustLast(PlanLoop(old, 0, 0, Size \div MaxThread))

\* ------------------------------------------------------------------ server
\* Byte i of the body of an error response: no byte of the resource.
ErrByte(i) == 0 - (i + 1)

\* The bodies a GET of lines 119-136 can be answered with, for the locals
\* begin and end of downloadBlock.  Without a Range header (end = -1) the
\* body is the whole resource.  A range that is inverted or starts at or
\* after the end of the resource selects no byte: the body is that of the
\* error response, empty or not (the code does not look at the status).
\* Otherwise the body is the bytes begin .. min(end, ResLen - 1).
Bodies(begin, end) ==
    IF end = -1
    THEN {[src |-> 0, left |-> ResLen, junk |-> FALSE]}
    ELSE IF begin > end \/ begin >= ResLen
    THEN {[src |-> 0, left |-> n, junk |-> TRUE] : n \in 0..ErrBodyLen}
    ELSE {[src |-> begin, left |-> Min(end, ResLen - 1) - begin + 1,
           junk |-> FALSE]}

\* The byte at position pos of a body.
BodyByte(junk, pos) == IF junk THEN ErrByte(pos) ELSE pos

\* --------------------------------------------------------------- fetchers
\* A goroutine of line 89 that has not yet called downloadBlock.
NewFetcher(r, id) ==
    [round |-> r, id |-> id, pc |-> "request", end |-> 0, src |-> 0,
     left |-> 0, junk |-> FALSE, bufSize |-> 0, wrote |-> 0, e |-> "nil",
     reg |-> 0]

\* The goroutine after its deferred send (lines 90-92).
Returned(f) == [NewFetcher(f.round, f.id) EXCEPT !.pc = "done"]

\* download() up to its wait loop (lines 85-103): the speed monitor is
\* started, the round's channel made, one goroutine started per block.
RECURSIVE Spawn(_, _, _)
Spawn(fs, r, ids) ==
    IF ids = <<>> THEN fs
    ELSE Spawn(Append(fs, NewFetcher(r, Head(ids))), r, Tail(ids))

Indices(list) == [i \in 1..Len(list) |-> i]

\* The goroutine of line 191 before its first statement.
NewMonitor == [pc |-> "init", old |-> 0]

EnterDownload(list, by) ==
    /\ monitors' = Append(monitors, NewMonitor)
    /\ rounds' = Append(rounds, [ok |-> 0, pc |-> "wait", by |-> by])
    /\ fetchers' = Spawn(fetchers, Len(rounds) + 1, Indices(list))
    /\ UNCHANGED Speeds

\* ------------------------------------------------------------------- Init
\* The count of onError after one more invocation.
OneMore(n) == Min(n + 1, MaxErrors)

NoCallback ==
    [onStart |-> 0, onPause |-> 0, onResume |-> 0, onFinish |-> 0,
     onError |-> 0]

\* The File that New returns (lines 53-57), before any call.
Fresh ==
    /\ BlockList = <<>>
    /\ paused = FALSE
    /\ Downloaded = 0
    /\ Speeds = 0
    /\ Stream = <<>>
    /\ startPc = "idle"
    /\ resumePend = 0
    /\ rounds = <<>>
    /\ fetchers = <<>>
    /\ monitors = <<>>
    /\ fired = NoCallback
    /\ calls = [Start |-> 0, Pause |-> 0, Resume |-> 0]
    /\ faults = 0
    /\ panicked = FALSE

\* The real length of a resource whose probe reported size: the size when
\* it is known, anything when the server omitted it.
Lengths(size, most) ==
    IF size > 0 THEN {size} ELSE IF size = 0 THEN {0} ELSE 1..most

\* What may happen in a run: the caller starts the File once (main, line
\* 271), pauses and resumes it; some requests and reads fail; the sink
\* takes every write; the network comes back after a failure.
RunLimits ==
    [starts |-> 1, pauses |-> MaxPauses, resumes |-> MaxResumes,
     faults |-> MaxFaults, overlap |-> MaxOverlap, sink |-> FALSE,
     outage |-> FALSE]

Init ==
    /\ Size \in -1..MaxRunSize
    /\ MaxThread \in 1..MaxRunThread
    /\ ResLen \in Lengths(Size, MaxRunSize)
    /\ limits = RunLimits
    /\ Fresh

\* --------------------------------------------------------- caller's calls
\* Start (line 60): starts the goroutine of line 61.  Nothing in Start
\* looks at the state of the File; a caller who calls it again does so after
\* the goroutine of the call before has entered download().
Start ==
    /\ ~panicked
    /\ calls.Start < limits.starts
    /\ startPc # "spawned"
    /\ startPc' = "spawned"
    /\ calls' = [calls EXCEPT !.Start = @ + 1]
    /\ UNCHANGED <<cfgVars, fileVars, monVars, resumePend, rounds, fetchers,
                   fired, faults, panicked>>

\* Fetcher goroutines that have not returned.
Live == Cardinality({k \in 1..Len(fetchers) : fetchers[k].pc # "done"})

\* The goroutine of Start (lines 62-76): plans the blocks, fires onStart
\* and enters download().  The planning touches the list alone and is taken
\* as one step; like the goroutine of Resume, it is scheduled once no more
\* fetchers of earlier rounds are running than the bound allows.
StartRun ==
    /\ ~panicked
    /\ startPc = "spawned"
    /\ Live <= limits.overlap
    /\ startPc' = "done"
    /\ LET list == Plan(BlockList)
       IN  /\ BlockList' = list
           /\ EnterDownload(list, "Start")
    /\ fired' = [fired EXCEPT !.onStart = @ + 1]
    /\ UNCHANGED <<cfgVars, paused, Downloaded, Stream, resumePend, calls,
                   faults, panicked>>

\* Pause (lines 169-171).
Pause ==
    /\ ~panicked
    /\ calls.Pause < limits.pauses
    /\ paused' = TRUE
    /\ calls' = [calls EXCEPT !.Pause = @ + 1]
    /\ UNCHANGED <<cfgVars, BlockList, Downloaded, Stream, monVars, procVars,
                   fired, faults, panicked>>

\* Resume (lines 173-175): clears the flag and starts the goroutine.
Resume ==
    /\ ~panicked
    /\ calls.Resume < limits.resumes
    /\ paused' = FALSE
    /\ resumePend' = resumePend + 1
    /\ calls' = [calls EXCEPT !.Resume = @ + 1]
    /\ UNCHANGED <<cfgVars, BlockList, Downloaded, Stream, monVars, startPc,
                   rounds, fetchers, fired, faults, panicked>>

\* The goroutine of Resume without the check of line 176: it would fire
\* onResume and enter download() whatever the list.
ResumeRunNoCheck ==
    /\ ~panicked
    /\ resumePend > 0
    /\ resumePend' = resumePend - 1
    /\ fired' = [fired EXCEPT !.onResume = @ + 1]
    /\ EnterDownload(BlockList, "Resume")
    /\ UNCHANGED <<cfgVars, fileVars, startPc, calls, faults, panicked>>

\* The goroutine of Resume (lines 176-182), scheduled once no more fetchers
\* of the earlier rounds are running than the bound allows.
ResumeRun ==
    /\ ~panicked
    /\ resumePend > 0
    /\ Live <= limits.overlap
    /\ resumePend' = resumePend - 1
    /\ IF BlockList = <<>>
       THEN /\ fired' = [fired EXCEPT !.onError = OneMore(@)]
            /\ UNCHANGED <<monVars, rounds, fetchers>>
       ELSE /\ fired' = [fired EXCEPT !.onResume = @ + 1]
            /\ EnterDownload(BlockList, "Resume")
    /\ UNCHANGED <<cfgVars, fileVars, startPc, calls, faults, panicked>>

\* ------------------------------------------------------------ coordinator
\* download() from its wait loop on (lines 105-115), for round r.  The
\* loop receives MaxThread values; each fetcher of the round sends one, and
\* a round has at most MaxThread fetchers, the capacity of the channel, so
\* that no send blocks.
Decide(r) ==
    /\ ~panicked
    /\ rounds[r].pc = "wait"
    /\ rounds[r].ok >= MaxThread
    /\ IF paused
       THEN /\ fired' = [fired EXCEPT !.onPause = @ + 1]
            /\ rounds' = [rounds EXCEPT ![r].pc = "paused"]
            /\ UNCHANGED paused
       ELSE /\ paused' = TRUE
            /\ fired' = [fired EXCEPT !.onFinish = @ + 1]
            /\ rounds' = [rounds EXCEPT ![r].pc = "finished"]
    /\ UNCHANGED <<cfgVars, BlockList, Downloaded, Stream, monVars, startPc,
                   resumePend, fetchers, calls, faults, panicked>>

\* ---------------------------------------------------------------- fetcher
\* The goroutine of line 89 after downloadBlock returned nil: it breaks
\* out of its loop and its deferred function sends on the round's channel.
ReturnNil(k) ==
    /\ fetchers' = [fetchers EXCEPT ![k] = Returned(fetchers[k])]
    /\ rounds' = [rounds EXCEPT ![fetchers[k].round].ok = @ + 1]

\* downloadBlock returned an error to the loop of line 94.
ReturnErr(k) ==
    fetchers' = [fetchers EXCEPT ![k] =
        [NewFetcher(fetchers[k].round, fetchers[k].id) EXCEPT !.pc = "failed"]]

\* The goroutine of line 89 that leaves its loop after an error (`break`
\* for the `continue` of line 98).
FetchRetryBreak(k) ==
    /\ ~panicked
    /\ fetchers[k].pc = "failed"
    /\ ReturnNil(k)
    /\ fired' = [fired EXCEPT !.onError = OneMore(@)]
    /\ UNCHANGED <<cfgVars, fileVars, monVars, startPc, resumePend, calls,
                   faults, panicked>>

\* The loop of line 94 after an error (lines 96-98): onError, and the next
\* call of downloadBlock.  Nothing here looks at paused.
FetchRetry(k) ==
    /\ ~panicked
    /\ fetchers[k].pc = "failed"
    /\ fetchers' = [fetchers EXCEPT ![k].pc = "request"]
    /\ fired' = [fired EXCEPT !.onError = OneMore(@)]
    /\ UNCHANGED <<cfgVars, fileVars, monVars, startPc, resumePend, rounds,
                   calls, faults, panicked>>

\* downloadBlock up to its chunk loop (lines 119-138): the locals begin and
\* end are read, the request is sent, and either it fails or its response
\* is there to be read.  A network that stays down fails every request.
FetchRequest(k) ==
    LET f == fetchers[k]
        b == BlockList[f.id]
    IN  /\ ~panicked
        /\ f.pc = "request"
        /\ \/ /\ \E body \in Bodies(b.Begin, b.End) :
                    fetchers' = [fetchers EXCEPT ![k] =
                        [f EXCEPT !.pc = "loop", !.end = b.End,
                                  !.src = body.src, !.left = body.left,
                                  !.junk = body.junk]]
              /\ UNCHANGED faults
           \/ /\ faults < limits.faults \/ limits.outage
              /\ faults' = Min(faults + 1, limits.faults)
              /\ ReturnErr(k)
        /\ UNCHANGED <<cfgVars, fileVars, monVars, startPc, resumePend,
                       rounds, fired, calls, panicked>>

\* What resp.Body.Read (line 144) can return for a body with `left` bytes
\* to come: n bytes and no error, the last bytes or none with io.EOF, or
\* some bytes with a network error.
Reads(left) ==
    {[n |-> n, e |-> "nil"] : n \in 1..Min(CacheSize, left)}
    \cup {[n |-> n, e |-> "EOF"] : n \in {left} \cap (0..CacheSize)}
    \cup {[n |-> n, e |-> "err"] : n \in 0..Min(CacheSize, left)}

\* WriteAt(buf[:n], off) of line 155, buf holding the bytes of the body
\* from position src on.
WriteAt(stream, junk, src, n, off) ==
    [o \in DOMAIN stream \cup (off..(off + n - 1)) |->
        IF o \in off..(off + n - 1)
        THEN BodyByte(junk, src + (o - off))
        ELSE stream[o]]

\* One pass of the chunk loop up to the truncation (lines 140-154): the
\* paused check, the read, and the cut to the bytes the block still owes.
\* A negative n makes buf[:n] of line 155 panic.
FetchRead(k) ==
    LET f == fetchers[k]
        b == BlockList[f.id]
    IN  /\ ~panicked
        /\ f.pc = "loop"
        /\ IF paused
           THEN /\ ReturnNil(k)
                /\ UNCHANGED <<faults, panicked>>
           ELSE \E rd \in Reads(f.left) :
                LET needSize == b.End + 1 - b.Begin
                    cut == f.end # -1 /\ rd.n > needSize
                    bufSize == IF cut THEN needSize ELSE rd.n
                    e == IF cut THEN "EOF" ELSE rd.e
                IN  /\ rd.e = "err" => faults < limits.faults
                    /\ faults' = IF rd.e = "err" THEN faults + 1 ELSE faults
                    /\ IF bufSize < 0
                       THEN /\ panicked' = TRUE
                            /\ UNCHANGED fetchers
                       ELSE /\ fetchers' = [fetchers EXCEPT ![k] =
                                 [f EXCEPT !.pc = "write",
                                    !.bufSize = bufSize, !.e = e,
                                    !.left = f.left - rd.n]]
                            /\ UNCHANGED panicked
                    /\ UNCHANGED rounds
        /\ UNCHANGED <<cfgVars, fileVars, monVars, startPc, resumePend,
                       fired, calls>>

\* The numbers of bytes a WriteAt of n bytes can put into the sink: all of
\* them, or fewer when the sink fails.
Written(n) ==
    {n} \cup (IF limits.sink /\ faults < limits.faults
              THEN 0..(n - 1) ELSE {})

\* The write of the chunk at the block's Begin (line 155), whose results
\* are dropped, and the read of f.status.Downloaded += bufSize (line 157).
FetchWrite(k) ==
    LET f == fetchers[k]
        b == BlockList[f.id]
        more == f.e = "nil"
    IN  /\ ~panicked
        /\ f.pc = "write"
        /\ \E w \in Written(f.bufSize) :
              /\ Stream' = WriteAt(Stream, f.junk, f.src, w, b.Begin)
              /\ faults' = IF w < f.bufSize THEN faults + 1 ELSE faults
              /\ fetchers' = [fetchers EXCEPT ![k] =
                   [f EXCEPT !.pc = "store", !.reg = Downloaded, !.wrote = w,
                             !.src = IF more THEN f.src + f.bufSize ELSE 0,
                             !.left = IF more THEN f.left ELSE 0]]
        /\ UNCHANGED <<cfgVars, BlockList, paused, Downloaded, monVars,
                       startPc, resumePend, rounds, fired, calls, panicked>>

\* The store of f.status.Downloaded += bufSize (line 157), and the read of
\* f.BlockList[id].Begin += bufSize (line 158).
FetchStore(k) ==
    LET f == fetchers[k]
    IN  /\ ~panicked
        /\ f.pc = "store"
        /\ Downloaded' = f.reg + f.bufSize
        /\ fetchers' = [fetchers EXCEPT ![k] =
             [f EXCEPT !.pc = "advance", !.reg = BlockList[f.id].Begin]]
        /\ UNCHANGED <<cfgVars, BlockList, paused, Stream, monVars, startPc,
                       resumePend, rounds, obsVars>>

\* The store of f.BlockList[id].Begin += bufSize and the end of the pass
\* (lines 158-165): the next pass, or the return of nil or of the error.
FetchAdvance(k) ==
    LET f == fetchers[k]
    IN  /\ ~panicked
        /\ f.pc = "advance"
        /\ BlockList' = [BlockList EXCEPT ![f.id].Begin = f.reg + f.bufSize]
        /\ IF f.e = "nil"
           THEN /\ fetchers' = [fetchers EXCEPT ![k] =
                      [f EXCEPT !.pc = "loop", !.bufSize = 0, !.wrote = 0,
                                !.reg = 0]]
                /\ UNCHANGED rounds
           ELSE IF f.e = "EOF"
           THEN ReturnNil(k)
           ELSE /\ ReturnErr(k)
                /\ UNCHANGED rounds
        /\ UNCHANGED <<cfgVars, paused, Downloaded, Stream, monVars, startPc,
                       resumePend, obsVars>>

\* ---------------------------------------------------------- speed monitor
\* The goroutine of startGetSpeeds, m-th started.  Line 192: old is set
\* from Downloaded.
MonitorInit(m) ==
    /\ ~panicked
    /\ monitors[m].pc = "init"
    /\ monitors' = [monitors EXCEPT ![m] = [pc |-> "check", old |-> Downloaded]]
    /\ UNCHANGED <<cfgVars, fileVars, Speeds, procVars, obsVars>>

\* Lines 194-198: when paused, Speeds is reset and the goroutine returns;
\* otherwise it sleeps for the sampling interval.
MonitorCheck(m) ==
    /\ ~panicked
    /\ monitors[m].pc = "check"
    /\ IF paused
       THEN /\ Speeds' = 0
            /\ monitors' = [monitors EXCEPT ![m] = [pc |-> "done", old |-> 0]]
       ELSE /\ monitors' = [monitors EXCEPT ![m].pc = "sleep"]
            /\ UNCHANGED Speeds
    /\ UNCHANGED <<cfgVars, fileVars, procVars, obsVars>>

\* Line 199, after the sleep: Speeds is set to what was downloaded since
\* old was taken.
MonitorSample(m) ==
    /\ ~panicked
    /\ monitors[m].pc = "sleep"
    /\ Speeds' = Downloaded - monitors[m].old
    /\ monitors' = [monitors EXCEPT ![m].pc = "remember"]
    /\ UNCHANGED <<cfgVars, fileVars, procVars, obsVars>>

\* Line 200: old is set from Downloaded, and the loop goes on.
MonitorRemember(m) ==
    /\ ~panicked
    /\ monitors[m].pc = "remember"
    /\ monitors' = [monitors EXCEPT ![m] = [pc |-> "check", old |-> Downloaded]]
    /\ UNCHANGED <<cfgVars, fileVars, Speeds, procVars, obsVars>>

\* ------------------------------------------------------------------ specs
\* A step of some round's coordinator, and of some fetcher.
Coordinator == \E r \in 1..Len(rounds) : Decide(r)
Requesting == \E k \in 1..Len(fetchers) : FetchRequest(k)
Reading == \E k \in 1..Len(fetchers) : FetchRead(k)
Writing == \E k \in 1..Len(fetchers) : FetchWrite(k)
Storing == \E k \in 1..Len(fetchers) : FetchStore(k)
Advancing == \E k \in 1..Len(fetchers) : FetchAdvance(k)
Retrying == \E k \in 1..Len(fetchers) : FetchRetry(k)

\* A step of some speed monitor.
Watching == \E m \in 1..Len(monitors) : MonitorInit(m)
Checking == \E m \in 1..Len(monitors) : MonitorCheck(m)
Sampling == \E m \in 1..Len(monitors) : MonitorSample(m)
Remembering == \E m \in 1..Len(monitors) : MonitorRemember(m)

Next ==
    \/ Start
    \/ StartRun
    \/ Pause
    \/ Resume
    \/ ResumeRun
    \/ Coordinator
    \/ Requesting
    \/ Reading
    \/ Writing
    \/ Storing
    \/ Advancing
    \/ Retrying

\* The speed monitors do not run in Next: they write Speeds and their own
\* old, which no step of Next reads.
Spec == Init /\ [][Next]_vars

\* Runs with the speed monitors, of one block.
MonitorInits ==
    /\ Size \in -1..MaxEdgeSize
    /\ MaxThread = 1
    /\ ResLen \in Lengths(Size, MaxEdgeSize)
    /\ limits = [RunLimits EXCEPT !.resumes = MaxEdgeResumes]
    /\ Fresh

MonitorNext ==
    \/ Next
    \/ Watching
    \/ Checking
    \/ Sampling
    \/ Remembering

MonitorSpec == MonitorInits /\ [][MonitorNext]_vars

\* Runs of a File that the caller starts again, of one block a plan.
RestartInit ==
    /\ Size \in -1..MaxRestartSize
    /\ MaxThread = 1
    /\ ResLen \in Lengths(Size, MaxRestartSize)
    /\ limits = [RunLimits EXCEPT !.starts = MaxStarts,
                                  !.resumes = MaxEdgeResumes]
    /\ Fresh

RestartSpec == RestartInit /\ [][Next]_vars

\* Runs of one block in which the goroutine of Resume enters download()
\* while a fetcher of the round before is running.
OverlapInit ==
    /\ Size \in 1..MaxEdgeSize
    /\ MaxThread = 1
    /\ ResLen \in Lengths(Size, MaxEdgeSize)
    /\ limits = [RunLimits EXCEPT !.resumes = MaxEdgeResumes,
                                  !.overlap = MaxEdgeOverlap]
    /\ Fresh

OverlapSpec == OverlapInit /\ [][Next]_vars

\* Runs of one block into a sink whose writes may fail.
SinkInit ==
    /\ Size \in 1..MaxEdgeSize
    /\ MaxThread = 1
    /\ ResLen \in Lengths(Size, MaxEdgeSize)
    /\ limits = [RunLimits EXCEPT !.resumes = MaxEdgeResumes, !.sink = TRUE]
    /\ Fresh

SinkSpec == SinkInit /\ [][Next]_vars

\* The planner alone, over every size and parallelism up to the bounds.
PlanInit ==
    /\ Size \in (-1..MaxSize) \cup ExampleSizes
    /\ MaxThread \in 1..MaxP
    /\ ResLen \in Lengths(Size, 1)
    /\ limits = [RunLimits EXCEPT !.pauses = 0, !.resumes = 0, !.faults = 0]
    /\ Fresh

PlanNext == Start \/ StartRun

PlanSpec == PlanInit /\ [][PlanNext]_vars

\* Every step goroutine k of line 89 can take.
Fetcher(k) ==
    /\ k \in 1..Len(fetchers)
    /\ \/ FetchRequest(k)
       \/ FetchRead(k)
       \/ FetchWrite(k)
       \/ FetchStore(k)
       \/ FetchAdvance(k)
       \/ FetchRetry(k)

\* The Go scheduler runs every goroutine that can run: the goroutine of
\* Start, the coordinator of its round, each fetcher.  The caller owes no
\* call, and a request may fail as long as the network is down.
Fairness ==
    /\ WF_vars(StartRun)
    /\ WF_vars(Coordinator)
    /\ \A k \in 1..MaxRunThread : WF_vars(Fetcher(k))

\* Runs under fair scheduling of a File that is started, perhaps paused
\* and never resumed, over a network that may stay down.
FairInit ==
    /\ Size \in -1..MaxRunSize
    /\ MaxThread \in 1..MaxRunThread
    /\ ResLen \in Lengths(Size, MaxRunSize)
    /\ \E down \in BOOLEAN :
          limits = [RunLimits EXCEPT !.resumes = 0, !.outage = down]
    /\ Fresh

FairNext ==
    \/ Start
    \/ StartRun
    \/ Pause
    \/ Coordinator
    \/ Requesting
    \/ Reading
    \/ Writing
    \/ Storing
    \/ Advancing
    \/ Retrying

FairSpec == FairInit /\ [][FairNext]_vars /\ Fairness

\* ----------------------------------------------------------------- claims
RECURSIVE SumSpans(_)
SumSpans(list) ==
    IF list = <<>> THEN 0
    ELSE (Head(list).End - Head(list).Begin + 1) + SumSpans(Tail(list))

\* The goroutine of Start has planned the blocks.
Planned == startPc = "done"

\* Every byte of the resource in the span of block b has been fetched.
Fetched(b) ==
    IF b.End = -1 THEN b.Begin >= ResLen
    ELSE b.Begin >= Min(b.End + 1, ResLen)

AllFetched == \A i \in 1..Len(BlockList) : Fetched(BlockList[i])

\* A step in which onFinish is invoked.
Finishes == fired'.onFinish > fired.onFinish

\* C1: for a known size S > 0, the spans of the planned blocks sum to S and
\* the last block ends at S - 1.
C1_CoversExactly ==
    (Planned /\ Size > 0) =>
        /\ SumSpans(BlockList) = Size
        /\ BlockList[Len(BlockList)].End = Size - 1

\* C2: for a known size S > 0, the MaxThread planned blocks are contiguous
\* and pairwise disjoint: the first begins at 0, each other one begins
\* right after the End of the one before, and no offset is in two blocks.
C2_Contiguous ==
    (Planned /\ Size > 0) =>
        /\ Len(BlockList) = MaxThread
        /\ BlockList[1].Begin = 0
        /\ \A i \in 2..Len(BlockList) :
              BlockList[i].Begin = BlockList[i - 1].End + 1
        /\ \A i, j \in 1..Len(BlockList) :
              i < j => (BlockList[i].Begin..BlockList[i].End)
                       \cap (BlockList[j].Begin..BlockList[j].End) = {}

\* The planner ran for a size smaller than the parallelism.
C2_Witness ==
    Planned /\ Size > 0 /\ Size < MaxThread /\ Len(BlockList) = MaxThread

\* C3: for an unknown size (Size <= 0) the planned list is the one block
\* from 0 to -1, and nothing else.
C3_UnknownSingle ==
    (Planned /\ Size <= 0) => BlockList = <<Block(0, -1)>>

\* The planner ran for a probe that reported a length of zero.
C3_Witness == Planned /\ Size = 0 /\ Len(BlockList) = 1 /\ MaxThread > 1

\* C4: no step lowers Downloaded.
C4_Monotone == [][Downloaded' >= Downloaded]_vars

\* C5: when onFinish fires for a known size S with every block fetched,
\* Downloaded is S.
C5_DownloadedIsSize ==
    [][(Finishes /\ Size > 0 /\ AllFetched) => Downloaded = Size]_vars

\* A run without Pause, Resume or network failure has finished with every
\* block fetched and an increment of Downloaded lost.
C5_LostUpdate ==
    /\ \E r \in 1..Len(rounds) : rounds[r].pc = "finished"
    /\ AllFetched
    /\ Size > MaxThread
    /\ Downloaded < Size
    /\ faults = 0
    /\ calls.Pause = 0
    /\ calls.Resume = 0

\* C6: onFinish is never invoked a second time.
C6_FinishOnce == fired.onFinish <= 1

\* C7: onFinish fires only when every block has been completely fetched.
C7_FinishComplete == [][Finishes => AllFetched]_vars

\* C8: the goroutine of a Resume that finds the block list empty reports
\* an error through onError, does not fire onResume, and starts neither a
\* round nor a fetcher.
C8_ResumeEmpty ==
    [][(resumePend' < resumePend /\ BlockList = <<>>) =>
          /\ fired'.onError = fired.onError + 1
          /\ fired'.onResume = fired.onResume
          /\ rounds' = rounds
          /\ fetchers' = fetchers
          /\ monitors' = monitors]_vars

\* A Resume on a File that was never started has been answered.
C8_Witness ==
    /\ BlockList = <<>>
    /\ startPc = "idle"
    /\ calls.Resume = 1
    /\ resumePend = 0
    /\ fired.onError = 1
    /\ rounds = <<>>

\* C9: in a round of Resume, the fetch of a block with a bounded End that is
\* already fully fetched returns at once: it sends no request, and leaves the destination,
\* the block and Downloaded as they are.
C9_RefetchNoOp ==
    [][\A k \in 1..Len(fetchers) :
          ( /\ fetchers[k].pc = "request"
            /\ fetchers'[k] # fetchers[k]
            /\ rounds[fetchers[k].round].by = "Resume"
            /\ BlockList[fetchers[k].id].End # -1
            /\ Fetched(BlockList[fetchers[k].id]) )
          => /\ fetchers'[k].pc = "done"
             /\ fired'.onError = fired.onError
             /\ UNCHANGED <<Stream, BlockList, Downloaded>>]_vars

\* Without any network failure, the last block, whose first request was
\* for bytes of the resource, was fetched again when complete: a byte of
\* an error body lies at offset Size and was counted in Downloaded.
C9_LastBlockRecount ==
    /\ Size > MaxThread
    /\ faults = 0
    /\ Len(BlockList) = MaxThread
    /\ BlockList[MaxThread].Begin = Size + 1
    /\ Downloaded = Size + 1
    /\ Size \in DOMAIN Stream
    /\ Stream[Size] = ErrByte(0)

\* C10: when onFinish fires after a Pause and a Resume, the destination
\* holds at every offset below the known size S the byte of that offset.
C10_ByteIdentical ==
    [][(Finishes /\ Size > 0 /\ calls.Pause > 0 /\ calls.Resume > 0) =>
          \A o \in 0..(Size - 1) : o \in DOMAIN Stream /\ Stream[o] = o]_vars

\* The bytes of a resource of known size are all in the destination.
Complete ==
    /\ AllFetched
    /\ \A o \in 0..(Size - 1) : o \in DOMAIN Stream /\ Stream[o] = o

FetchersOf(r) == {k \in 1..Len(fetchers) : fetchers[k].round = r}
RoundReturned(r) == \A k \in FetchersOf(r) : fetchers[k].pc = "done"

\* C12: the coordinator of a round decides only when every fetcher of the
\* round has returned, having received one value from each; and once every
\* fetcher of a round has returned, its coordinator is free to decide,
\* whatever the size: also for the one block of a transfer of unknown size.
C12_FanIn ==
    /\ [][\A r \in 1..Len(rounds) :
            (rounds[r].pc = "wait" /\ rounds'[r].pc # "wait") =>
                /\ RoundReturned(r)
                /\ rounds[r].ok = Cardinality(FetchersOf(r))]_vars
    /\ [](\A r \in 1..Len(rounds) :
            (rounds[r].pc = "wait" /\ RoundReturned(r)) => ENABLED Decide(r))

\* The one fetcher of a transfer of unknown size has returned at the end of
\* the resource, and the coordinator, which receives MaxThread values, waits.
C12_Stuck ==
    /\ Size <= 0
    /\ MaxThread > 1
    /\ Len(rounds) = 1
    /\ FetchersOf(1) = {1}
    /\ RoundReturned(1)
    /\ AllFetched
    /\ calls.Pause = 0
    /\ rounds[1].pc = "wait"
    /\ ~ENABLED Coordinator

\* Pause was called, no Resume, and the round of a transfer of known size
\* has not decided.
PausedRunning ==
    /\ Size > 0
    /\ calls.Pause > 0
    /\ calls.Resume = 0
    /\ Len(rounds) = 1
    /\ rounds[1].pc = "wait"

\* C13: when Pause is called while the round of a transfer of known size is
\* running and no Resume follows, every fetcher of the round returns, also
\* when its requests keep failing; then the coordinator fires onPause; and
\* onFinish is not fired after the Pause.
C13_PauseStops ==
    /\ PausedRunning ~> RoundReturned(1)
    /\ PausedRunning
          ~> (Len(rounds) = 1 /\ rounds[1].pc = "paused" /\ fired.onPause = 1)
    /\ [][(calls.Pause > 0 /\ calls.Resume = 0) =>
            fired'.onFinish = fired.onFinish]_vars

\* C14: once Pause has been called and as long as Resume has not, no step
\* sets Speeds to anything but 0: a Speeds that is not 0 can only be reset,
\* and a Speeds of 0 stays.
C14_PausedSpeedsZero ==
    [][(calls.Pause > 0 /\ calls.Resume = 0 /\ Speeds' # Speeds) =>
          Speeds' = 0]_vars

\* C15: once the block list has been planned, no step changes its length
\* or the End of a block, whatever the caller calls afterwards.
C15_ListFixed ==
    [][BlockList # <<>> =>
          /\ Len(BlockList') = Len(BlockList)
          /\ \A i \in 1..Len(BlockList) :
                BlockList'[i].End = BlockList[i].End]_vars

\* A second Start on a File of known size has planned MaxThread more
\* blocks behind the first ones.
C15_PlannedTwice ==
    /\ Size > 0
    /\ calls.Start = 2
    /\ startPc = "done"
    /\ Len(BlockList) = 2 * MaxThread
    /\ Len(rounds) >= 2

\* C16: a fetcher of a block with a bounded End puts no byte behind End:
\* every chunk of at least one byte that it writes ends at End at most.
C16_NoWritePastEnd ==
    [][\A k \in 1..Len(fetchers) :
          ( /\ fetchers[k].pc = "write"
            /\ fetchers'[k].pc = "store"
            /\ fetchers[k].end # -1
            /\ fetchers[k].bufSize > 0 )
          => BlockList[fetchers[k].id].Begin + fetchers[k].bufSize
                <= BlockList[fetchers[k].id].End + 1]_vars

\* Start, Pause and then Resume were called, in this order, and no round
\* has finished.
PausedThenResumed ==
    /\ calls = [Start |-> 1, Pause |-> 1, Resume |-> 1]
    /\ ~paused
    /\ fired.onFinish = 0

\* After Start, Pause and Resume, with the fetchers of both rounds on the
\* one block, the destination holds a byte behind the block's End.
C16_WrotePastEnd ==
    /\ PausedThenResumed
    /\ Len(BlockList) = 1
    /\ \E o \in DOMAIN Stream : o > BlockList[1].End

\* C17: in every state, every block with a bounded End has
\* Begin <= End + 1.
C17_BeginBounded ==
    \A i \in 1..Len(BlockList) :
        BlockList[i].End # -1 => BlockList[i].Begin <= BlockList[i].End + 1

\* After Start, Pause and Resume, the fetchers of both rounds have each
\* added a chunk to the Begin of the one block, which is now behind End + 1.
C17_BeginPastEnd ==
    /\ PausedThenResumed
    /\ Len(BlockList) = 1
    /\ BlockList[1].Begin > BlockList[1].End + 1

\* C18: after a WriteAt that put fewer bytes into the sink than the chunk
\* has, Downloaded and the block's Begin go up by the number of bytes that
\* were written, and the fetch returns an error to the retry loop.
C18_ShortWrite ==
    [][\A k \in 1..Len(fetchers) :
          fetchers[k].wrote < fetchers[k].bufSize =>
            /\ (fetchers[k].pc = "store" /\ fetchers'[k].pc = "advance") =>
                  Downloaded' = Downloaded + fetchers[k].wrote
            /\ (fetchers[k].pc = "advance" /\ fetchers'[k] # fetchers[k]) =>
                  /\ BlockList'[fetchers[k].id].Begin
                        = BlockList[fetchers[k].id].Begin + fetchers[k].wrote
                  /\ fetchers'[k].pc = "failed"]_vars

\* A transfer that was neither paused nor resumed and saw no network
\* failure has finished without any onError, and a byte of the resource is
\* missing in the destination.
C18_SilentHole ==
    /\ fired.onFinish = 1
    /\ fired.onError = 0
    /\ calls.Pause = 0
    /\ calls.Resume = 0
    /\ AllFetched
    /\ Downloaded >= Size
    /\ \E o \in 0..(Size - 1) : o \notin DOMAIN Stream

\* The fetchers of block i that have not returned, and the rounds whose
\* coordinator is in its wait loop.
LiveOn(i) ==
    {k \in 1..Len(fetchers) : fetchers[k].id = i /\ fetchers[k].pc # "done"}
Waiting == {r \in 1..Len(rounds) : rounds[r].pc = "wait"}

\* C20: at no time have two fetchers of one block not returned, and at no
\* time are the coordinators of two rounds waiting.
C20_OneFetcherOneRound ==
    /\ \A i \in 1..Len(BlockList) : Cardinality(LiveOn(i)) <= 1
    /\ Cardinality(Waiting) <= 1

\* After Start, Pause and Resume, the fetcher of the round of Start, which
\* had not reached its paused check between the two calls, and the fetcher
\* of the round of Resume are both in the chunk loop of the one block.
C20_TwoOnOneBlock ==
    /\ PausedThenResumed
    /\ Len(rounds) = 2
    /\ rounds[2].by = "Resume"
    /\ Len(fetchers) = 2
    /\ fetchers[1].id = fetchers[2].id
    /\ fetchers[1].pc = "write"
    /\ fetchers[2].pc = "write"

\* The speed monitors whose goroutine has not returned.
ActiveMonitors == {m \in 1..Len(monitors) : monitors[m].pc # "done"}

\* C19: at no time are two speed monitors active.
C19_OneMonitor == Cardinality(ActiveMonitors) <= 1

\* The round of Start ended in onPause; Resume followed before the monitor
\* of that round had looked at paused, and its round started a monitor; the
\* first one found paused clear and runs on.
C19_MissedPause ==
    /\ calls.Pause = 1
    /\ calls.Resume = 1
    /\ fired.onPause = 1
    /\ Len(rounds) = 2
    /\ rounds[1].pc = "paused"
    /\ Len(monitors) = 2
    /\ monitors[1].pc = "remember"
    /\ monitors[2].pc # "done"
    /\ ~paused

====
